---------------------------- MODULE Spec2Model ----------------------------
(***************************************************************************)
(* Model of the Python runtime shims of elide:                             *)
(*   - _Elide_ApplicationEnvironment (init.py / environment.py): the       *)
(*     layered environment mapping and its install-once monkey patch;      *)
(*   - bind_factory (init.py / preamble.py): the polyglot symbol bridge;   *)
(*   - FlaskBridge.route (init.py, tools/scripts/flask/app.py): the        *)
(*     route decorators in front of the host's Flask intrinsic;            *)
(*   - Flask.route.wrapper (tools/scripts/intrinsics/flask.py): the        *)
(*     per-request wrapper around the host's response.send;                *)
(*   - redirect and url_for (init.py): the helpers in front of the host's  *)
(*     make_response and url_for;                                          *)
(*   - the demo scripts (intrinsics/flask.py, intrinsics/http.py,          *)
(*     projects/flask/src/app.py): their registrations and start calls;    *)
(*   - fib (tools/scripts/fibgen.py) and parse_maven_pom                   *)
(*     (tools/build-arena/docker/maven-to-elide.py).                       *)
(***************************************************************************)
EXTENDS Integers, Sequences, FiniteSets, TLC

VARIABLES
    app_env,          \* the host symbol __Elide_app_env__: [present, data]
    app_environ,      \* instance id -> the instance's base mapping (__app_environ)
    virtual_env,      \* the class attribute __virtual_env (shared overlay)
    created,          \* number of _Elide_ApplicationEnvironment() constructions
    cls_singleton,    \* the class attribute _singleton (None or an instance id)
    cls_patched,      \* the class attribute _patched
    os_environ,       \* what os.environ refers to (None: the original mapping)
    patches,          \* number of executions of `os.environ = singleton`
    pc,               \* per thread: position inside install()
    local,            \* per thread: the local `singleton` of __singleton/__patch
    lastGet,          \* the latest lookup through os.environ: [op, key, ov, bv, res]
    registered_py_symbols,  \* the dict registered_py_symbols of __init__interop
    exports,          \* the calls of polyglot.export_value, in order: [symbol, obj]
    lastBind,         \* the latest binder(obj) call: [symbol, already, outcome]
    flask_class,      \* the class behind `app`: none, FlaskBridge or Flask
    routes,           \* the host Flask intrinsic's table: endpoint name -> route
    cur,              \* the object the route decorators of one def are applied to
    applied,          \* the decorators applied to that def so far:
                      \*   [rule, methods, via, options]
    defs,             \* number of decorated function definitions so far
    lastRoute,        \* the latest self.bridge.route(...) call
    route_err,        \* the error that ended the registering script, if any
    router,           \* the host router's handlers, in router.handle order
    started,          \* server.start() has been called
    sends,            \* the response.send calls of the latest request, in order
    handled,          \* the latest request: [path, func, wrapped, via, outcome]
    lastResponse,     \* the response the latest redirect(target) returned
    lastUrl,          \* the latest url_for call: [endpoint, variables, res]
    script,           \* the demo script being run: [name, elide]
    spc,              \* the next statement of that script
    fib_limit,        \* fibgen.py: the limit of the running fib() call
    fib_previous,     \* fibgen.py: `previous` of the innermost generator frame
    fib_current,      \* fibgen.py: `current` of the innermost generator frame
    fib_out,          \* fibgen.py: the values yielded so far
    fib_pc,           \* fibgen.py: idle, running, done or RecursionError
    pom,              \* maven-to-elide.py: the pom.xml handed to parse_maven_pom
    parsed            \* maven-to-elide.py: what parse_maven_pom returned

envVars == <<app_env, app_environ, virtual_env, created, cls_singleton,
             cls_patched, os_environ, patches, pc, local, lastGet>>

bindVars == <<registered_py_symbols, exports, lastBind>>

bridgeVars == <<flask_class, routes, cur, applied, defs, lastRoute, route_err>>

shimVars == <<router, started, sends, handled>>

urlVars == <<lastResponse, lastUrl>>

scriptVars == <<script, spc>>

fibVars == <<fib_limit, fib_previous, fib_current, fib_out, fib_pc>>

mavenVars == <<pom, parsed>>

\* the state of the helpers and tools outside the four shims
toolVars == <<urlVars, scriptVars, fibVars, mavenVars>>

\* what the environment's operations leave alone
otherVars == <<bindVars, bridgeVars, shimVars, toolVars>>

vars == <<envVars, bindVars, bridgeVars, shimVars, toolVars>>

-----------------------------------------------------------------------------
(* Bounds and finite input sets *)

NumThreads == 2

Threads == 1..NumThreads

Keys == {"K1", "K2"}

\* "" is the falsy string of Python; the others are truthy
Values == {"", "a", "b"}

None == 0

EmptyMap == [k \in {} |-> ""]

\* what polyglot.import_value("__Elide_app_env__") may hand out
HostEnvs ==
    { [present |-> FALSE, data |-> EmptyMap],
      [present |-> TRUE,  data |-> EmptyMap],
      [present |-> TRUE,  data |-> [k \in {"K1"} |-> "a"]],
      [present |-> TRUE,  data |-> [k \in {"K1", "K2"} |-> IF k = "K1" THEN "a" ELSE ""]] }

-----------------------------------------------------------------------------
(* Python values used by the lookups *)

Truthy(v) == v # ""

Miss == [kind |-> "None"]

Value(v) == [kind |-> "value", val |-> v]

KeyError == [kind |-> "KeyError"]

\* dict.get(item): the value, or None
DictGet(d, item) == IF item \in DOMAIN d THEN Value(d[item]) ELSE Miss

\* dict.__getitem__(item): the value, or KeyError
DictGetItem(d, item) == IF item \in DOMAIN d THEN Value(d[item]) ELSE KeyError

\* Python's `a or b`: a when a is truthy, else b (b is evaluated only then)
PyOr(a, b) == IF a.kind = "value" /\ Truthy(a.val) THEN a ELSE b

-----------------------------------------------------------------------------
(* _Elide_ApplicationEnvironment: the mapping *)

Instances == 1..created

\* __init__: the base is a copy of the host data, or the class-level {} when
\* the host gave None
NewBase == IF app_env.present THEN app_env.data ELSE EmptyMap

contains_key_BaseOnly(i, item) == item \in DOMAIN app_environ[i]

contains_key(i, item) == item \in DOMAIN app_environ[i] \/ item \in DOMAIN virtual_env

RECURSIVE AddAll(_, _)
AddAll(merged, rest) ==
    IF rest = {} THEN merged
    ELSE LET x == CHOOSE y \in rest : TRUE
         IN AddAll(merged \cup {x}, rest \ {x})

\* merged = set(base keys); for x in overlay: merged.add(x)
all_keys(i) == AddAll({x \in DOMAIN app_environ[i] : TRUE}, DOMAIN virtual_env)

\* `item in env`
Contains(i, item) == contains_key(i, item)

\* self.__virtual_env.get(item) or self.__app_environ.__getitem__(item)
GetItem(i, item) == PyOr(DictGet(virtual_env, item), DictGetItem(app_environ[i], item))

\* get(item, default=None)
Get(i, item) == IF Contains(i, item) THEN GetItem(i, item) ELSE Miss

SetItemEffect_WritesBase(item, value) ==
    /\ virtual_env' = [k \in DOMAIN virtual_env \cup {item} |->
                          IF k = item THEN value ELSE virtual_env[k]]
    /\ app_environ' = [app_environ EXCEPT ![os_environ] =
                          [k \in DOMAIN @ \cup {item} |->
                              IF k = item THEN value ELSE @[k]]]

\* __setitem__: self.__virtual_env[item] = value
SetItemEffect(item, value) ==
    /\ virtual_env' = [k \in DOMAIN virtual_env \cup {item} |->
                          IF k = item THEN value ELSE virtual_env[k]]
    /\ UNCHANGED app_environ

\* os.environ[item] = value
SetItem(item, value) ==
    /\ os_environ # None
    /\ SetItemEffect(item, value)
    /\ UNCHANGED <<app_env, created, cls_singleton, cls_patched, os_environ,
                   patches, pc, local, lastGet, otherVars>>

\* what a lookup of `item` on instance i starts from and ends with
Lookup(op, i, item, res) ==
    [op |-> op, key |-> item, ov |-> DictGet(virtual_env, item),
     bv |-> DictGet(app_environ[i], item), res |-> res]

\* os.environ.get(item)
GetCall(item) ==
    /\ os_environ # None
    /\ lastGet' = Lookup("get", os_environ, item, Get(os_environ, item))
    /\ UNCHANGED <<app_env, app_environ, virtual_env, created, cls_singleton,
                   cls_patched, os_environ, patches, pc, local, otherVars>>

\* os.environ[item]
GetItemCall(item) ==
    /\ os_environ # None
    /\ lastGet' = Lookup("getitem", os_environ, item, GetItem(os_environ, item))
    /\ UNCHANGED <<app_env, app_environ, virtual_env, created, cls_singleton,
                   cls_patched, os_environ, patches, pc, local, otherVars>>

-----------------------------------------------------------------------------
(* _Elide_ApplicationEnvironment.install, one step per attribute access *)

\* install(): cls.__patch(cls.__singleton()); a caller enters __singleton
CanEnter(t) == pc[t] = "idle"

InstallCall(t) ==
    /\ CanEnter(t)
    /\ pc' = [pc EXCEPT ![t] = "singleton_check"]
    /\ UNCHANGED <<app_env, app_environ, virtual_env, created, cls_singleton,
                   cls_patched, os_environ, patches, local, lastGet, otherVars>>

\* if getattr(cls, "_singleton", None) is None:
SingletonCheck(t) ==
    /\ pc[t] = "singleton_check"
    /\ pc' = [pc EXCEPT ![t] = IF cls_singleton = None THEN "singleton_new"
                                ELSE "singleton_ret"]
    /\ UNCHANGED <<app_env, app_environ, virtual_env, created, cls_singleton,
                   cls_patched, os_environ, patches, local, lastGet, otherVars>>

\* singleton = _Elide_ApplicationEnvironment()
SingletonNew(t) ==
    /\ pc[t] = "singleton_new"
    /\ created' = created + 1
    /\ app_environ' = [i \in 1..(created + 1) |->
                          IF i = created + 1 THEN NewBase ELSE app_environ[i]]
    /\ local' = [local EXCEPT ![t] = created + 1]
    /\ pc' = [pc EXCEPT ![t] = "singleton_set"]
    /\ UNCHANGED <<app_env, virtual_env, cls_singleton, cls_patched, os_environ,
                   patches, lastGet, otherVars>>

\* setattr(cls, "_singleton", singleton)
SingletonSet(t) ==
    /\ pc[t] = "singleton_set"
    /\ cls_singleton' = local[t]
    /\ pc' = [pc EXCEPT ![t] = "singleton_ret"]
    /\ UNCHANGED <<app_env, app_environ, virtual_env, created, cls_patched,
                   os_environ, patches, local, lastGet, otherVars>>

\* return getattr(cls, "_singleton"): the argument of __patch
SingletonRet(t) ==
    /\ pc[t] = "singleton_ret"
    /\ local' = [local EXCEPT ![t] = cls_singleton]
    /\ pc' = [pc EXCEPT ![t] = "patch_check"]
    /\ UNCHANGED <<app_env, app_environ, virtual_env, created, cls_singleton,
                   cls_patched, os_environ, patches, lastGet, otherVars>>

PatchGuard_Always == TRUE

\* if not getattr(cls, "_patched", False):
PatchGuard == ~cls_patched

PatchCheck(t) ==
    /\ pc[t] = "patch_check"
    /\ pc' = [pc EXCEPT ![t] = IF PatchGuard THEN "patch_assign" ELSE "idle"]
    /\ UNCHANGED <<app_env, app_environ, virtual_env, created, cls_singleton,
                   cls_patched, os_environ, patches, local, lastGet, otherVars>>

\* os.environ = singleton
PatchAssign(t) ==
    /\ pc[t] = "patch_assign"
    /\ os_environ' = local[t]
    /\ patches' = patches + 1
    /\ pc' = [pc EXCEPT ![t] = "patch_flag"]
    /\ UNCHANGED <<app_env, app_environ, virtual_env, created, cls_singleton,
                   cls_patched, local, lastGet, otherVars>>

\* setattr(cls, "_patched", True)
PatchFlag(t) ==
    /\ pc[t] = "patch_flag"
    /\ cls_patched' = TRUE
    /\ pc' = [pc EXCEPT ![t] = "idle"]
    /\ UNCHANGED <<app_env, app_environ, virtual_env, created, cls_singleton,
                   os_environ, patches, local, lastGet, otherVars>>

InstallStep(t) ==
    \/ SingletonCheck(t)
    \/ SingletonNew(t)
    \/ SingletonSet(t)
    \/ SingletonRet(t)
    \/ PatchCheck(t)
    \/ PatchAssign(t)
    \/ PatchFlag(t)

-----------------------------------------------------------------------------
(* bind_factory: the polyglot symbol bridge *)

MaxBinds == 3

\* the functions the scripts decorate: __name__ and identity
Objs == { [name |-> "say_hello", id |-> 1],
          [name |-> "say_hello", id |-> 2],
          [name |-> "goodbye",   id |-> 1] }

\* the name argument of bind_factory: None (@bind, @poly()), or a string
BindNames == {"None", "", "say_hello", "say_goodbye"}

\* symbol = name or obj.__name__
SymbolOf(name, obj) == IF name \in {"None", ""} THEN obj.name ELSE name

Exported(symbol) == \E n \in 1..Len(exports) : exports[n].symbol = symbol

\* binder(obj): raise ValueError when the symbol is registered, else
\* polyglot.export_value(symbol, obj); nothing stores into the dict
Binder(name, obj) ==
    LET symbol == SymbolOf(name, obj) IN
    /\ Len(exports) < MaxBinds
    /\ IF symbol \in registered_py_symbols
       THEN /\ lastBind' = [symbol |-> symbol, already |-> Exported(symbol),
                            outcome |-> "ValueError"]
            /\ UNCHANGED <<registered_py_symbols, exports>>
       ELSE /\ exports' = Append(exports, [symbol |-> symbol, obj |-> obj])
            /\ UNCHANGED registered_py_symbols
            /\ lastBind' = [symbol |-> symbol, already |-> Exported(symbol),
                            outcome |-> "ok"]
    /\ UNCHANGED <<envVars, bridgeVars, shimVars, toolVars>>

\* @bind: bind_factory()(obj)
BindDecorator(obj) == Binder("None", obj)

\* @poly(name=...): bind_factory(name)(obj)
PolyDecorator(name, obj) == Binder(name, obj)

NextBind ==
    \/ \E obj \in Objs : BindDecorator(obj)
    \/ \E name \in BindNames, obj \in Objs : PolyDecorator(name, obj)

-----------------------------------------------------------------------------
(* FlaskBridge: the route decorators in front of the host's Flask intrinsic *)

MaxDefs == 2

MaxStack == 2

\* the functions the scripts decorate, by __name__
FuncNames == {"hello_world", "point"}

\* __name__ of the closure `def dispatcher(args)`
DispatcherName == "dispatcher"

Rules == {"/hello", "/hello/<name>"}

\* the **options of route(): no methods key, or a methods list
RouteOptions == { [given |-> FALSE],
                  [given |-> TRUE, methods |-> <<"GET">>],
                  [given |-> TRUE, methods |-> <<"POST">>] }

NoFunc == [name |-> "none", wrapped |-> FALSE, fn |-> "none"]

Range(seq) == {seq[n] : n \in 1..Len(seq)}

\* the two classes with the route decorators: FlaskBridge of init.py and
\* Flask of tools/scripts/flask/app.py
FlaskClasses == {"FlaskBridge", "Flask"}

\* FlaskBridge: methods = options.get("methods", ["GET"])
\* Flask:       methods = options["methods"] if options["methods"] is not None
\*                        else ["GET"]     (options["methods"] raises KeyError
\*                                          when the key is absent)
MethodsOf(cls, options) ==
    IF options.given THEN [err |-> "none", methods |-> options.methods]
    ELSE IF cls = "FlaskBridge" THEN [err |-> "none", methods |-> <<"GET">>]
    ELSE [err |-> "KeyError", methods |-> <<>>]

\* the rule the verb helpers are tried on
VerbRules == {"/hello"}

Verbs == {"head", "options", "get", "post", "put", "patch", "delete"}

\* def get(self, rule): return self.route(rule, methods=["GET"]), and so on
VerbOptions(verb) ==
    [given |-> TRUE,
     methods |-> CASE verb = "head" -> <<"HEAD">>
                   [] verb = "options" -> <<"OPTIONS">>
                   [] verb = "get" -> <<"GET">>
                   [] verb = "post" -> <<"POST">>
                   [] verb = "put" -> <<"PUT">>
                   [] verb = "patch" -> <<"PATCH">>
                   [] verb = "delete" -> <<"DELETE">>]

\* hasattr(handler, "_elide_flask_handler")
IsWrapped(handler) == handler.wrapped

\* the endpoint name handler_wrapper passes to self.bridge.route
EndpointOf(handler) == handler.name

\* the host's route(endpointName, rule, methods, handler): a new endpoint is
\* stored; an endpoint registered again needs the same template, and then its
\* methods are unioned and its handler replaced
BridgeRoute(endpoint, rule, methods, fn) ==
    /\ lastRoute' = [endpoint |-> endpoint, rule |-> rule, methods |-> methods,
                     fn |-> fn]
    /\ IF endpoint \in DOMAIN routes /\ routes[endpoint].rule # rule
       THEN /\ route_err' = "ConflictingRouteError"
            /\ UNCHANGED routes
       ELSE /\ route_err' = route_err
            /\ routes' = [e \in DOMAIN routes \cup {endpoint} |->
                 IF e # endpoint THEN routes[e]
                 ELSE [rule |-> rule,
                       methods |-> Range(methods) \cup
                          (IF e \in DOMAIN routes THEN routes[e].methods ELSE {}),
                       handler |-> fn]]

\* app = Flask(__name__)
NewApp(cls) ==
    /\ flask_class = "none"
    /\ flask_class' = cls
    /\ UNCHANGED <<routes, cur, applied, defs, lastRoute, route_err, envVars,
                   bindVars, shimVars, toolVars>>

\* def f(...): the function object the decorators below are stacked on
Def(f) ==
    /\ flask_class # "none"
    /\ route_err = "none"
    /\ defs < MaxDefs
    /\ defs' = defs + 1
    /\ cur' = [name |-> f, wrapped |-> FALSE, fn |-> f]
    /\ applied' = <<>>
    /\ UNCHANGED <<flask_class, routes, lastRoute, route_err, envVars, bindVars,
                   shimVars, toolVars>>

\* handler_wrapper(handler) of route(rule, **options), reached through `via`
\* (route itself or one of the verb helpers), applied to the current object
HandlerWrapper(rule, options, via) ==
    LET got == MethodsOf(flask_class, options) IN
    /\ route_err = "none"
    /\ cur # NoFunc
    /\ Len(applied) < MaxStack
    /\ applied' = Append(applied, [rule |-> rule, methods |-> got.methods,
                                   via |-> via, options |-> options])
    /\ IF got.err # "none"
       THEN /\ route_err' = got.err
            /\ UNCHANGED <<routes, lastRoute, cur>>
       ELSE /\ BridgeRoute(EndpointOf(cur), rule, got.methods, cur.fn)
            /\ cur' = IF IsWrapped(cur) THEN cur
                      ELSE [name |-> DispatcherName, wrapped |-> TRUE,
                            fn |-> cur.fn]
    /\ UNCHANGED <<flask_class, defs, envVars, bindVars, shimVars, toolVars>>

\* @app.route(rule, **options)
Route(rule, options) == HandlerWrapper(rule, options, "route")

\* @app.get(rule), @app.post(rule), ...
Verb(verb, rule) == HandlerWrapper(rule, VerbOptions(verb), verb)

NextBridge ==
    \/ \E cls \in FlaskClasses : NewApp(cls)
    \/ \E f \in FuncNames : Def(f)
    \/ \E rule \in Rules, options \in RouteOptions : Route(rule, options)
    \/ \E verb \in Verbs, rule \in VerbRules : Verb(verb, rule)

-----------------------------------------------------------------------------
(* intrinsics/flask.py: Flask.route's wrapper around response.send *)

MaxRoutes == 2

Paths == {"/hello", "/bye"}

Send(status, body) == [status |-> status, body |-> body]

\* what a user function returns: a body, a (body, status) pair, a
\* (body, status, headers) triple, or nothing
Results == { [shape |-> "body", content |-> "Hello"],
             [shape |-> "body_status", content |-> "Hello", status |-> 202],
             [shape |-> "full", content |-> "Hello", status |-> 201,
              headers |-> "Server: Elide"],
             [shape |-> "none"] }

\* a user function: what it returns or that it raises, and the sends it
\* makes itself on the response it is handed before that
Funcs ==
    { [ret |-> r, sends |-> ss, raises |-> FALSE] :
        r \in Results, ss \in {<<>>, <<Send(200, "direct")>>} }
    \cup
    { [ret |-> [shape |-> "none"], sends |-> ss, raises |-> TRUE] :
        ss \in {<<>>, <<Send(200, "direct")>>} }

Wrapper_Swallows(func) ==
    IF func.raises
    THEN [sends |-> func.sends \o <<Send(500, func.ret)>>, outcome |-> "returned"]
    ELSE [sends |-> func.sends \o <<Send(200, func.ret)>>, outcome |-> "returned"]

\* wrapper(request, response, context):
\*   content = func(request, response, context); response.send(200, content)
\* with no try around the call: an exception of func leaves the wrapper at
\* the first statement
Wrapper(func) ==
    IF func.raises
    THEN [sends |-> func.sends, outcome |-> "raised"]
    ELSE [sends |-> func.sends \o <<Send(200, func.ret)>>, outcome |-> "returned"]

\* a function the host calls directly
Direct(func) ==
    [sends |-> func.sends,
     outcome |-> IF func.raises THEN "raised" ELSE "returned"]

\* FlaskBridge.route's closure: def dispatcher(args): return handler(**args)
Dispatcher(func) ==
    [sends |-> func.sends,
     outcome |-> IF func.raises THEN "raised" ELSE "returned"]

\* @app.route(path): self.router.handle(None, path, wrapper)
ShimRoute(path, func) ==
    /\ Len(router) < MaxRoutes
    /\ router' = Append(router, [method |-> "None", path |-> path,
                                 func |-> func, wrapped |-> TRUE])
    /\ UNCHANGED <<started, sends, handled, envVars, bindVars, bridgeVars, toolVars>>

\* router.handle("GET", path, func) with the function itself (http.py)
RouterHandle(path, func) ==
    /\ Len(router) < MaxRoutes
    /\ router' = Append(router, [method |-> "GET", path |-> path,
                                 func |-> func, wrapped |-> FALSE])
    /\ UNCHANGED <<started, sends, handled, envVars, bindVars, bridgeVars, toolVars>>

\* app.start() / server.start()
Start ==
    /\ ~started
    /\ started' = TRUE
    /\ UNCHANGED <<router, sends, handled, envVars, bindVars, bridgeVars, toolVars>>

Matches(n, method, path) ==
    /\ router[n].path = path
    /\ router[n].method \in {"None", method}

\* the host hands a request to the first handler registered for it, with a
\* fresh response
HandleRequest(method, path) ==
    /\ started
    /\ \E n \in 1..Len(router) :
          /\ Matches(n, method, path)
          /\ \A m \in 1..(n - 1) : ~Matches(m, method, path)
          /\ LET call == IF router[n].wrapped THEN Wrapper(router[n].func)
                         ELSE Direct(router[n].func)
             IN /\ sends' = call.sends
                /\ handled' = [path |-> path, func |-> router[n].func,
                               wrapped |-> router[n].wrapped,
                               via |-> IF router[n].wrapped THEN "wrapper"
                                       ELSE "handler",
                               outcome |-> call.outcome]
    /\ UNCHANGED <<router, started, envVars, bindVars, bridgeVars, toolVars>>

\* the host's Flask intrinsic calls the dispatcher it was given for a route
DispatcherCall(path, func) ==
    /\ LET call == Dispatcher(func)
       IN /\ sends' = call.sends
          /\ handled' = [path |-> path, func |-> func, wrapped |-> FALSE,
                         via |-> "dispatcher", outcome |-> call.outcome]
    /\ UNCHANGED <<router, started, envVars, bindVars, bridgeVars, toolVars>>

\* user functions behind the wrapper and behind the dispatcher
NextHandlers ==
    \/ \E func \in Funcs : ShimRoute("/hello", func)
    \/ Start
    \/ \E method \in {"GET", "POST"}, path \in Paths : HandleRequest(method, path)
    \/ \E func \in Funcs : DispatcherCall("/hello", func)

NextShim ==
    \/ \E path \in Paths, func \in Funcs : ShimRoute(path, func)
    \/ \E path \in Paths, func \in Funcs : RouterHandle(path, func)
    \/ Start
    \/ \E method \in {"GET", "POST"}, path \in Paths : HandleRequest(method, path)

-----------------------------------------------------------------------------
(* redirect and url_for: the helpers in front of the host's Flask intrinsic *)

MaxParams == 2

Targets == {"/hello", "/bye"}

\* d[k] = v
Put(d, k, v) == [x \in DOMAIN d \cup {k} |-> IF x = k THEN v ELSE d[x]]

\* the host's make_response() without arguments: status 200, no header, an
\* empty body
MakeResponse == [status |-> 200, headers |-> EmptyMap, body |-> ""]

Redirect_NoLocation(target) == [MakeResponse EXCEPT !.status = 302]

\* response = flask_binding().make_response(); response.status = 302;
\* response.headers["Location"] = target; return response
Redirect(target) ==
    LET response == MakeResponse
    IN [response EXCEPT !.status = 302,
                        !.headers = Put(@, "Location", target)]

RedirectCall(target) ==
    /\ lastResponse' = [target |-> target, res |-> Redirect(target)]
    /\ UNCHANGED <<lastUrl, envVars, bindVars, bridgeVars, shimVars, scriptVars,
                   fibVars, mavenVars>>

Lit(text) == [kind |-> "lit", text |-> text]

Param(name) == [kind |-> "param", text |-> name]

\* the compiled template of a rule: its segments between the slashes
Compile(rule) ==
    CASE rule = "/hello" -> <<Lit("hello")>>
      [] rule = "/hello/<name>" -> <<Lit("hello"), Param("name")>>

\* one keyword argument: name="Dario", name="a b", flair="true", page="2"
KwPairs ==
    {[key |-> "name", value |-> v] : v \in {"Dario", "a b"}}
        \cup {[key |-> "flair", value |-> "true"], [key |-> "page", value |-> "2"]}

\* the **variables of url_for: keyword arguments in the order given
Kwargs ==
    UNION { { kw \in [1..n -> KwPairs] :
                \A a, b \in 1..n : kw[a].key = kw[b].key => a = b }
            : n \in 0..MaxParams }

\* percent-encoding: a space becomes %20, unreserved characters stay
Encode(text) == IF text = "a b" THEN "a%20b" ELSE text

HasKey(variables, key) == \E n \in 1..Len(variables) : variables[n].key = key

ValueOf(variables, key) ==
    variables[CHOOSE n \in 1..Len(variables) : variables[n].key = key].value

SlotNames(segs) == {segs[n].text : n \in {m \in 1..Len(segs) : segs[m].kind = "param"}}

\* the entries no slot consumed, as a query string: ?k=v first, then &k=v
RECURSIVE QueryOf(_, _, _)
QueryOf(variables, slots, first) ==
    IF variables = <<>> THEN <<>>
    ELSE LET h == Head(variables)
         IN IF h.key \in slots THEN QueryOf(Tail(variables), slots, first)
            ELSE <<[sep |-> IF first THEN "?" ELSE "&",
                    key |-> Encode(h.key), value |-> Encode(h.value)]>>
                 \o QueryOf(Tail(variables), slots, FALSE)

\* the host's url_for(endpoint, variables): the endpoint's template with its
\* slots filled, then the surplus entries as the query string
HostUrlFor(endpoint, variables) ==
    IF endpoint \notin DOMAIN routes THEN [err |-> "UnknownEndpointError"]
    ELSE LET segs == Compile(routes[endpoint].rule)
             slots == SlotNames(segs)
         IN IF \E name \in slots : ~HasKey(variables, name)
            THEN [err |-> "MissingParameterError"]
            ELSE [err |-> "none",
                  path |-> [n \in 1..Len(segs) |->
                              IF segs[n].kind = "param"
                              THEN Encode(ValueOf(variables, segs[n].text))
                              ELSE segs[n].text],
                  query |-> QueryOf(variables, slots, TRUE)]

UrlFor_DropsVariables(endpoint, variables) == HostUrlFor(endpoint, <<>>)

\* def url_for(endpoint, **variables):
\*   return flask_binding().url_for(endpoint, variables)
UrlFor(endpoint, variables) == HostUrlFor(endpoint, variables)

UrlForCall(endpoint, variables) ==
    /\ lastUrl' = [endpoint |-> endpoint,
                   rule |-> IF endpoint \in DOMAIN routes
                            THEN routes[endpoint].rule ELSE "none",
                   variables |-> variables,
                   res |-> UrlFor(endpoint, variables)]
    /\ UNCHANGED <<lastResponse, envVars, bindVars, bridgeVars, shimVars,
                   scriptVars, fibVars, mavenVars>>

\* an endpoint stored in the host's table, as the decorators store it
HostRegister(endpoint, rule) ==
    /\ route_err = "none"
    /\ BridgeRoute(endpoint, rule, <<"GET">>, endpoint)
    /\ UNCHANGED <<flask_class, cur, applied, defs, envVars, bindVars, shimVars,
                   toolVars>>

NextUrl ==
    \/ \E endpoint \in FuncNames, rule \in Rules : HostRegister(endpoint, rule)
    \/ \E target \in Targets : RedirectCall(target)
    \/ \E endpoint \in FuncNames \cup {"bye_world"}, variables \in Kwargs :
          UrlForCall(endpoint, variables)

-----------------------------------------------------------------------------
(* The demo and bootstrap scripts: their registrations and their start call *)

Scripts == {"intrinsics/flask.py", "intrinsics/http.py", "flask/src/app.py"}

\* a function that returns its body and leaves the response alone
Returning ==
    [ret |-> [shape |-> "body", content |-> "Hello"], sends |-> <<>>,
     raises |-> FALSE]

\* a function that sends on the response it is handed
Sending ==
    [ret |-> [shape |-> "none"], sends |-> <<Send(200, "direct")>>,
     raises |-> FALSE]

\* one statement of a module body; `elide` marks a statement inside
\* `if Elide is not None:`
Stmt(kind, elide, method, path, func) ==
    [kind |-> kind, elide |-> elide, method |-> method, path |-> path,
     func |-> func]

\* the module bodies, statement by statement in file order
Statements(name) ==
    CASE name = "intrinsics/flask.py" ->
           << Stmt("route", FALSE, "None", "/hello", Returning),
              Stmt("start", FALSE, "None", "none", Returning) >>
      [] name = "intrinsics/http.py" ->
           << Stmt("handle", FALSE, "GET", "/hello", Sending),
              Stmt("start", FALSE, "None", "none", Sending) >>
      [] name = "flask/src/app.py" ->
           << Stmt("start", TRUE, "None", "none", Returning),
              Stmt("route", FALSE, "GET", "/ping", Returning),
              Stmt("route", FALSE, "POST", "/echo", Returning),
              Stmt("handle", TRUE, "GET", "/ping", Sending),
              Stmt("handle", TRUE, "POST", "/echo", Sending) >>
      [] OTHER -> <<>>

\* the interpreter starts on a script; Elide may or may not be resolvable
LoadScript(name, elide) ==
    /\ script.name = "none"
    /\ script' = [name |-> name, elide |-> elide]
    /\ spc' = 1
    /\ UNCHANGED <<envVars, bindVars, bridgeVars, shimVars, urlVars, fibVars,
                   mavenVars>>

\* the statement at spc is of this kind and is executed
Runs(kind) ==
    /\ script.name # "none"
    /\ spc <= Len(Statements(script.name))
    /\ Statements(script.name)[spc].kind = kind
    /\ Statements(script.name)[spc].elide => script.elide

\* a statement under `if Elide is not None:` when Elide is None
ScriptSkip ==
    /\ script.name # "none"
    /\ spc <= Len(Statements(script.name))
    /\ Statements(script.name)[spc].elide /\ ~script.elide
    /\ spc' = spc + 1
    /\ UNCHANGED <<script, envVars, bindVars, bridgeVars, shimVars, urlVars,
                   fibVars, mavenVars>>

\* @app.route(path) def f: the decorator registers the wrapped function
ScriptRoute ==
    /\ Runs("route")
    /\ LET st == Statements(script.name)[spc]
       IN router' = Append(router, [method |-> st.method, path |-> st.path,
                                    func |-> st.func, wrapped |-> TRUE])
    /\ spc' = spc + 1
    /\ UNCHANGED <<script, started, sends, handled, envVars, bindVars,
                   bridgeVars, urlVars, fibVars, mavenVars>>

\* router.handle(method, path, f)
ScriptHandle ==
    /\ Runs("handle")
    /\ LET st == Statements(script.name)[spc]
       IN router' = Append(router, [method |-> st.method, path |-> st.path,
                                    func |-> st.func, wrapped |-> FALSE])
    /\ spc' = spc + 1
    /\ UNCHANGED <<script, started, sends, handled, envVars, bindVars,
                   bridgeVars, urlVars, fibVars, mavenVars>>

\* app.start() / server.start() / Elide.http.start()
ScriptStart ==
    /\ Runs("start")
    /\ started' = TRUE
    /\ spc' = spc + 1
    /\ UNCHANGED <<script, router, sends, handled, envVars, bindVars,
                   bridgeVars, urlVars, fibVars, mavenVars>>

NoHandler == [ret |-> [shape |-> "none"], sends |-> <<>>, raises |-> FALSE]

\* a request no registered handler matches: the host answers it itself
NotFound(method, path) ==
    /\ started
    /\ \A n \in 1..Len(router) : ~Matches(n, method, path)
    /\ handled' = [path |-> path, func |-> NoHandler, wrapped |-> FALSE,
                   via |-> "host", outcome |-> "NotFound"]
    /\ sends' = <<>>
    /\ UNCHANGED <<router, started, envVars, bindVars, bridgeVars, toolVars>>

ScriptPaths == {"/hello", "/ping", "/echo"}

NextScript ==
    \/ \E name \in Scripts, elide \in BOOLEAN : LoadScript(name, elide)
    \/ ScriptSkip
    \/ ScriptRoute
    \/ ScriptHandle
    \/ ScriptStart
    \/ \E method \in {"GET", "POST"}, path \in ScriptPaths : HandleRequest(method, path)
    \/ \E method \in {"GET", "POST"}, path \in ScriptPaths : NotFound(method, path)

-----------------------------------------------------------------------------
(* tools/scripts/fibgen.py: the recursive generator fib *)

MaxLimit == 10

\* the depth at which the interpreter gives up a recursion (RecursionError)
MaxDepth == 12

FibLimits == (0 - 2)..MaxLimit

\* if limit and (current >= limit): an int is truthy unless it is 0
FibStops(limit, current) == limit # 0 /\ current >= limit

\* fib(limit): previous=1, current=0 by default
FibCall(limit) ==
    /\ fib_pc = "idle"
    /\ fib_limit' = limit
    /\ fib_previous' = 1
    /\ fib_current' = 0
    /\ fib_out' = <<>>
    /\ fib_pc' = "running"
    /\ UNCHANGED <<envVars, bindVars, bridgeVars, shimVars, urlVars, scriptVars,
                   mavenVars>>

\* the innermost frame takes the `pass` branch: every generator is exhausted
FibReturn ==
    /\ fib_pc = "running"
    /\ FibStops(fib_limit, fib_current)
    /\ fib_pc' = "done"
    /\ UNCHANGED <<fib_limit, fib_previous, fib_current, fib_out, envVars,
                   bindVars, bridgeVars, shimVars, urlVars, scriptVars, mavenVars>>

\* yield previous + current, then the loop enters
\* fib(limit, current, previous + current)
FibYield ==
    /\ fib_pc = "running"
    /\ ~FibStops(fib_limit, fib_current)
    /\ Len(fib_out) < MaxDepth
    /\ fib_out' = Append(fib_out, fib_previous + fib_current)
    /\ fib_previous' = fib_current
    /\ fib_current' = fib_previous + fib_current
    /\ UNCHANGED <<fib_limit, fib_pc, envVars, bindVars, bridgeVars, shimVars,
                   urlVars, scriptVars, mavenVars>>

\* one generator frame per value: the nesting reaches the recursion limit
FibRecursionError ==
    /\ fib_pc = "running"
    /\ ~FibStops(fib_limit, fib_current)
    /\ Len(fib_out) >= MaxDepth
    /\ fib_pc' = "RecursionError"
    /\ UNCHANGED <<fib_limit, fib_previous, fib_current, fib_out, envVars,
                   bindVars, bridgeVars, shimVars, urlVars, scriptVars, mavenVars>>

NextFib ==
    \/ \E limit \in FibLimits : FibCall(limit)
    \/ FibReturn
    \/ FibYield
    \/ FibRecursionError

-----------------------------------------------------------------------------
(* tools/build-arena/docker/maven-to-elide.py: parse_maven_pom *)

MaxDeps == 2

MaxManaged == 1

Absent == "none"

Artifacts == {"a", "b"}

\* a <dependency> element: groupId g, an artifactId, and a version and a
\* scope that may be absent
Dependency(artifact, version, scope) ==
    [group |-> "g", artifact |-> artifact, version |-> version, scope |-> scope]

\* the entries of <dependencies>
OwnDeps == { Dependency(a, v, sc) :
               a \in Artifacts, v \in {Absent, "1.0"}, sc \in {Absent, "test"} }

\* the entries of <dependencyManagement><dependencies>
ManagedDeps == { Dependency(a, v, Absent) : a \in Artifacts, v \in {Absent, "2.0"} }

\* sequences of at most n members of S, no artifact twice
DepLists(S, n) ==
    UNION { { ds \in [1..k -> S] :
                \A x, y \in 1..k : ds[x].artifact = ds[y].artifact => x = y }
            : k \in 0..n }

\* a pom.xml: its two sections, and which of them comes first in the file
Poms == [managed : DepLists(ManagedDeps, MaxManaged),
         deps : DepLists(OwnDeps, MaxDeps),
         managedFirst : BOOLEAN]

Coordinate(dep) == <<dep.group, dep.artifact>>

\* version_map[f"{group.text}:{artifact.text}"] = version.text, for the
\* entries of dependencyManagement that carry a version
RECURSIVE VersionMap(_)
VersionMap(managed) ==
    IF managed = <<>> THEN [k \in {} |-> ""]
    ELSE LET before == VersionMap(SubSeq(managed, 1, Len(managed) - 1))
             dep == managed[Len(managed)]
         IN IF dep.version = Absent THEN before
            ELSE [k \in DOMAIN before \cup {Coordinate(dep)} |->
                    IF k = Coordinate(dep) THEN dep.version ELSE before[k]]

\* root.findall('.//mvn:dependencies/mvn:dependency', ns): the dependency
\* children of every <dependencies> element below the root, in file order;
\* the <dependencies> inside <dependencyManagement> is one of them
FindAll(p) == IF p.managedFirst THEN p.managed \o p.deps ELSE p.deps \o p.managed

\* the explicit version, else the managed version, else nothing
DepVersion(dep, version_map) ==
    IF dep.version # Absent THEN dep.version
    ELSE IF Coordinate(dep) \in DOMAIN version_map THEN version_map[Coordinate(dep)]
    ELSE Absent

ScopeKey(dep) == IF dep.scope = "test" THEN "test" ELSE "compile"

\* the loop over deps: coordinate:version appended under the scope key
RECURSIVE Emit(_, _, _)
Emit(deps, version_map, key) ==
    IF deps = <<>> THEN <<>>
    ELSE LET dep == Head(deps)
             dep_version == DepVersion(dep, version_map)
             rest == Emit(Tail(deps), version_map, key)
         IN IF dep_version # Absent /\ ScopeKey(dep) = key
            THEN <<[coordinate |-> Coordinate(dep), version |-> dep_version]>> \o rest
            ELSE rest

\* parse_maven_pom(pom_path): the dependencies dict it returns
ParseMavenPom(p) ==
    LET version_map == VersionMap(p.managed)
        deps == FindAll(p)
    IN [done |-> TRUE,
        compile |-> Emit(deps, version_map, "compile"),
        test |-> Emit(deps, version_map, "test")]

\* a pom.xml is written
WritePom(p) ==
    /\ ~pom.loaded
    /\ pom' = [loaded |-> TRUE, xml |-> p]
    /\ UNCHANGED <<parsed, envVars, bindVars, bridgeVars, shimVars, urlVars,
                   scriptVars, fibVars>>

\* main: project_info, dependencies = parse_maven_pom(pom_path)
ParseCall ==
    /\ pom.loaded
    /\ ~parsed.done
    /\ parsed' = ParseMavenPom(pom.xml)
    /\ UNCHANGED <<pom, envVars, bindVars, bridgeVars, shimVars, urlVars,
                   scriptVars, fibVars>>

NextMaven ==
    \/ \E p \in Poms : WritePom(p)
    \/ ParseCall

-----------------------------------------------------------------------------
(* Specifications *)

Init ==
    /\ app_env \in HostEnvs
    /\ app_environ = <<>>
    /\ virtual_env = EmptyMap
    /\ created = 0
    /\ cls_singleton = None
    /\ cls_patched = FALSE
    /\ os_environ = None
    /\ patches = 0
    /\ pc = [t \in Threads |-> "idle"]
    /\ local = [t \in Threads |-> None]
    /\ lastGet = [op |-> "none"]
    /\ registered_py_symbols = {}
    /\ exports = <<>>
    /\ lastBind = [outcome |-> "none"]
    /\ flask_class = "none"
    /\ routes = EmptyMap
    /\ cur = NoFunc
    /\ applied = <<>>
    /\ defs = 0
    /\ lastRoute = [endpoint |-> "none"]
    /\ route_err = "none"
    /\ router = <<>>
    /\ started = FALSE
    /\ sends = <<>>
    /\ handled = [path |-> "none"]
    /\ lastResponse = [target |-> "none"]
    /\ lastUrl = [endpoint |-> "none"]
    /\ script = [name |-> "none"]
    /\ spc = 0
    /\ fib_limit = 0
    /\ fib_previous = 0
    /\ fib_current = 0
    /\ fib_out = <<>>
    /\ fib_pc = "idle"
    /\ pom = [loaded |-> FALSE]
    /\ parsed = [done |-> FALSE]

EnvOp ==
    \/ \E k \in Keys, v \in Values : SetItem(k, v)
    \/ \E k \in Keys : GetCall(k)
    \/ \E k \in Keys : GetItemCall(k)

\* install() calls follow one another: a call starts when no other is running
SeqInstallCall(t) ==
    /\ \A u \in Threads : pc[u] = "idle"
    /\ InstallCall(t)

Next ==
    \/ \E t \in Threads : SeqInstallCall(t)
    \/ \E t \in Threads : InstallStep(t)
    \/ EnvOp

Spec == Init /\ [][Next]_vars

\* install() entered by any thread at any time (threads interleave between
\* attribute accesses)
NextConcurrent ==
    \/ \E t \in Threads : InstallCall(t)
    \/ \E t \in Threads : InstallStep(t)

SpecConcurrent == Init /\ [][NextConcurrent]_vars

\* the decorators of the symbol bridge, applied in any order
SpecBind == Init /\ [][NextBind]_vars

\* a script that defines functions and stacks route decorators on them
SpecBridge == Init /\ [][NextBridge]_vars

\* routes registered on the host router, the server started, requests handled
SpecShim == Init /\ [][NextShim]_vars

\* requests to functions behind the route wrapper and behind the dispatcher
SpecHandlers == Init /\ [][NextHandlers]_vars

\* endpoints registered with the host, then redirect and url_for called
SpecUrl == Init /\ [][NextUrl]_vars

\* a demo script run statement by statement, requests arriving once the
\* server has been started
SpecScript == Init /\ [][NextScript]_vars

\* fib(limit) called and run to its end
SpecFib == Init /\ [][NextFib]_vars

\* a pom.xml converted
SpecMaven == Init /\ [][NextMaven]_vars

-----------------------------------------------------------------------------
(* Environment: lookup, assignment, key sets *)

IsLookup == lastGet.op \in {"get", "getitem"}

\* C1: a lookup returns the overlay value whenever the overlay holds the key,
\* a falsy value included, and the base value only when the overlay lacks it.
C1_OverlayPrecedence ==
    IsLookup =>
        /\ lastGet.ov.kind = "value" => lastGet.res = lastGet.ov
        /\ (lastGet.ov.kind = "None" /\ lastGet.bv.kind = "value")
              => lastGet.res = lastGet.bv

\* C7: every instance's base is the snapshot of the host data taken at
\* construction, and a step that changes the overlay changes the entry of one
\* key only and no base.
C7_SetWritesOnlyOverlay ==
    /\ [](\A i \in Instances : app_environ[i] = NewBase)
    /\ [][virtual_env' # virtual_env =>
             /\ app_environ' = app_environ
             /\ \E k \in Keys :
                   /\ DOMAIN virtual_env' = DOMAIN virtual_env \cup {k}
                   /\ \A j \in DOMAIN virtual_env \ {k} :
                         virtual_env'[j] = virtual_env[j]]_vars

\* an assignment has overridden a key the base defines with another value
C7_Witness ==
    /\ os_environ # None
    /\ \E k \in DOMAIN virtual_env \cap DOMAIN app_environ[os_environ] :
          virtual_env[k] # app_environ[os_environ][k]

\* C8: all_keys() is the union of the base keys and the overlay keys, and
\* contains_key(k) and `k in env` hold exactly for the members of all_keys().
C8_KeySetUnion ==
    \A i \in Instances :
        /\ all_keys(i) = DOMAIN app_environ[i] \cup DOMAIN virtual_env
        /\ \A k \in Keys :
              /\ contains_key(i, k) <=> k \in all_keys(i)
              /\ Contains(i, k) <=> k \in all_keys(i)

\* each layer holds a key the other lacks
C8_Witness ==
    /\ os_environ # None
    /\ DOMAIN virtual_env \ DOMAIN app_environ[os_environ] # {}
    /\ DOMAIN app_environ[os_environ] \ DOMAIN virtual_env # {}

\* C9: get(key) never raises: it returns a value for every key held by either
\* layer and the default for a key held by neither.
C9_GetNeverRaises ==
    lastGet.op = "get" =>
        /\ lastGet.res.kind # "KeyError"
        /\ (lastGet.ov.kind = "value" \/ lastGet.bv.kind = "value")
              => lastGet.res.kind = "value"
        /\ (lastGet.ov.kind = "None" /\ lastGet.bv.kind = "None")
              => lastGet.res = Miss

-----------------------------------------------------------------------------
(* Environment: install *)

InPatch(t) == pc[t] \in {"patch_check", "patch_assign", "patch_flag"}

\* C2: with install() entered concurrently, os.environ is assigned at most
\* once, at most one instance is created, and the installed instance is the
\* class singleton.
C2_SingleActivation ==
    /\ patches <= 1
    /\ created <= 1
    /\ os_environ # None => os_environ = cls_singleton

\* C6: with install() calls one after another, os.environ is assigned once,
\* by the first call; every call resolves the same instance; and once the
\* patch is flagged no call changes the installation.
C6_InstallIdempotent ==
    /\ [](/\ patches <= 1
          /\ created <= 1
          /\ patches = 1 => os_environ = cls_singleton
          /\ cls_patched => patches = 1
          /\ \A t \in Threads : InPatch(t) => local[t] = 1)
    /\ [][cls_patched => UNCHANGED <<os_environ, cls_singleton, cls_patched,
                                      patches, created, app_environ>>]_vars

\* a later call has resolved the singleton after the first call finished
C6_Witness == cls_patched /\ \E t \in Threads : pc[t] = "patch_check"

-----------------------------------------------------------------------------
(* Symbol bridge *)

\* C3: once a name is bound, a later bind of the same name fails with the
\* duplicate-symbol error and exports nothing: no name is exported twice.
C3_DuplicateRejected ==
    /\ \A m, n \in 1..Len(exports) :
          exports[m].symbol = exports[n].symbol => m = n
    /\ (lastBind.outcome # "none" /\ lastBind.already)
          => lastBind.outcome = "ValueError"

-----------------------------------------------------------------------------
(* Route decorators *)

\* the first def of a script carries two stacked decorators on one rule, the
\* inner with methods [GET], the outer with methods [POST]
StackedGetPost ==
    /\ route_err = "none"
    /\ defs = 1
    /\ Len(applied) = 2
    /\ applied[1].rule = applied[2].rule
    /\ applied[1].methods = <<"GET">>
    /\ applied[2].methods = <<"POST">>

\* C5: registering one function twice on one path, with methods [GET] and
\* then [POST], yields a single route under the function's name whose method
\* set is {GET, POST}.
C5_StackedMethodsMerge ==
    StackedGetPost =>
        /\ DOMAIN routes = {cur.fn}
        /\ routes[cur.fn].rule = applied[1].rule
        /\ routes[cur.fn].methods = {"GET", "POST"}

\* C14: every call the route decorator makes to the bridge's route() names
\* the endpoint after the user's original function, also when decorators are
\* stacked on one function.
C14_EndpointIsFunctionName ==
    lastRoute.endpoint # "none" => lastRoute.endpoint = lastRoute.fn

\* the latest decorator application of the current def
LastApplied == applied[Len(applied)]

\* C15: route(rule) without a methods option registers the method list
\* [GET], each verb helper registers its own single method, and no decorator
\* call fails for lack of a methods option.
C15_DefaultAndVerbMethods ==
    Len(applied) > 0 =>
        /\ route_err # "KeyError"
        /\ ~LastApplied.options.given => lastRoute.methods = <<"GET">>
        /\ LastApplied.via # "route" =>
              /\ Len(lastRoute.methods) = 1
              /\ lastRoute.methods = VerbOptions(LastApplied.via).methods

-----------------------------------------------------------------------------
(* Responses *)

WrappedRequest == handled.path # "none" /\ handled.wrapped

\* C4: while a route wrapper handles a request, response.send is invoked at
\* most once, whatever the user function does with the response.
C4_AtMostOneSend == WrappedRequest => Len(sends) <= 1

\* C10: the status the wrapper sends is the status of the function's result
\* when the result carries one (with the result's body), and 200 otherwise.
C10_StatusFromResult ==
    (WrappedRequest /\ handled.outcome = "returned") =>
        LET sent == sends[Len(sends)]
            ret == handled.func.ret
        IN IF ret.shape \in {"body_status", "full"}
           THEN sent.status = ret.status /\ sent.body = ret.content
           ELSE sent.status = 200

\* the latest call went through the wrapper or the dispatcher, and the user
\* function raised
HandlerRaised ==
    /\ handled.path # "none"
    /\ handled.via \in {"wrapper", "dispatcher"}
    /\ handled.func.raises

\* C16: when the user function raises, the wrapper (and the dispatcher)
\* around it lets the exception out to the host and sends nothing itself:
\* the only sends of the request are those the function made.
C16_ExceptionPropagates ==
    HandlerRaised =>
        /\ handled.outcome = "raised"
        /\ sends = handled.func.sends

\* a wrapped function raised after sending nothing
C16_Witness == HandlerRaised /\ handled.via = "wrapper" /\ sends = <<>>

-----------------------------------------------------------------------------
(* redirect and url_for *)

Redirected == lastResponse.target # "none"

UrlForCovered ==
    /\ lastUrl.endpoint # "none"
    /\ lastUrl.rule # "none"
    /\ \A name \in SlotNames(Compile(lastUrl.rule)) :
          HasKey(lastUrl.variables, name)

-----------------------------------------------------------------------------
(* Scripts *)

\* a registration statement of the running script has not been executed yet
RegistrationPending ==
    \E n \in spc..Len(Statements(script.name)) :
        /\ Statements(script.name)[n].kind \in {"route", "handle"}
        /\ Statements(script.name)[n].elide => script.elide

\* C13: in every script, every route registration happens before the call
\* that starts the server: once the server is started, no registration of
\* the script is still to come.
C13_RegistrationPrecedesServing == started => ~RegistrationPending

-----------------------------------------------------------------------------
(* Tools *)

\* C17: for every integer limit, fib(limit) comes to an end after finitely
\* many values, and no value it yields is greater than limit.
C17_FibWithinLimit ==
    /\ fib_pc # "RecursionError"
    /\ \A n \in 1..Len(fib_out) : fib_out[n] <= fib_limit

\* the project's own dependencies that have a version, under one scope key
ExpectedDeps(p, key) ==
    { [coordinate |-> Coordinate(p.deps[n]),
       version |-> DepVersion(p.deps[n], VersionMap(p.managed))] :
        n \in { m \in 1..Len(p.deps) :
                  /\ DepVersion(p.deps[m], VersionMap(p.managed)) # Absent
                  /\ ScopeKey(p.deps[m]) = key } }

\* C18: the compile and test lists hold exactly the project's own
\* dependencies that have a resolvable version, each once, under test iff
\* the scope is test; entries of dependencyManagement are not emitted.
C18_OwnDependenciesOnly ==
    parsed.done =>
        /\ Range(parsed.compile) = ExpectedDeps(pom.xml, "compile")
        /\ Len(parsed.compile) = Cardinality(ExpectedDeps(pom.xml, "compile"))
        /\ Range(parsed.test) = ExpectedDeps(pom.xml, "test")
        /\ Len(parsed.test) = Cardinality(ExpectedDeps(pom.xml, "test"))

=============================================================================
